---------------------------- MODULE Spec2Model ----------------------------
(***************************************************************************)
(* A model of the Scrappers sample player (src/00-reckless-abandon.go; the *)
(* message pipeline and the game database are the same code in the other   *)
(* two samples).                                                           *)
(*                                                                         *)
(*   reader loop (main) --msgQueue--> processMsgs --> gdb (GameDatabase)   *)
(*                                        |                                *)
(*                                        +-- go runStrategy() reads gdb   *)
(*                                                                         *)
(* Six specifications are given:                                           *)
(*   Spec       the session: reader, processMsgs and the strategy tasks    *)
(*   SpecStore  the GameDatabase alone, driven by InsertUpdateBot calls    *)
(*   SpecStrat  sessions of the three samples with the commands they send  *)
(*   SpecDuel   the session READY, BOT of the end-to-end scenario          *)
(*   SpecPower  the strategy tasks of the three samples on a given store   *)
(*   SpecSnap   a session with the references of the snapshots, and with   *)
(*              processMsgs running between the steps of the strategy      *)
(***************************************************************************)
EXTENDS Integers, Sequences, FiniteSets

(***************************************************************************)
(* Bounds of the model.                                                    *)
(***************************************************************************)
\* Lines the reader takes from the connection before the model stops reading.
MaxLines == 4
\* Capacity of msgQueue (make(chan MsgQueueItem, 1200)), scaled down so that
\* the reader meets a full queue.
QueueCap == 2

(***************************************************************************)
(* Program constants.                                                      *)
(***************************************************************************)
MaxHealth == 12

(***************************************************************************)
(* Wire values.  A JSON value of the wrong type for a field is recorded by *)
(* the field's name in the object's "bad" set; encoding/json leaves such a *)
(* field at its zero value, goes on decoding the other fields and returns  *)
(* an UnmarshalTypeError at the end.                                       *)
(***************************************************************************)
MsgPIDs == {1, 2}
MsgBIDs == {1, 2}
Positions == {<<0, 0>>, <<100, 7>>}
HealthVals == {-1, 0, 5, 12}

\* A JSON object for one bot.
BotObj(pid, bid, pos, health, bad) ==
    [PID |-> pid, BID |-> bid, X |-> pos[1], Y |-> pos[2],
     Health |-> health, bad |-> bad]

\* A line of text from the connection.  syntax = FALSE is text that is not
\* valid JSON.
Line(syntax, type, pid, bid, pos, health, bots, bad) ==
    [syntax |-> syntax, Type |-> type, PID |-> pid, BID |-> bid,
     X |-> pos[1], Y |-> pos[2], Health |-> health, Bots |-> bots,
     bad |-> bad]

\* The value a field decodes to: the zero value when its JSON type is wrong.
Field(obj, name, value) == IF name \in obj.bad THEN 0 ELSE value

\* json.Unmarshal(jsonmsg, &msg) with msg of type Msg.
DecodeMsg(line) ==
    [err  |-> ~line.syntax \/ "Type" \in line.bad,
     Type |-> IF ~line.syntax \/ "Type" \in line.bad THEN "" ELSE line.Type]

BotFields == {"PID", "BID", "X", "Y", "Health"}

\* The BotMsg a JSON object decodes to.
DecodeBotObj(obj) ==
    [PID    |-> Field(obj, "PID", obj.PID),
     BID    |-> Field(obj, "BID", obj.BID),
     X      |-> Field(obj, "X", obj.X),
     Y      |-> Field(obj, "Y", obj.Y),
     Health |-> Field(obj, "Health", obj.Health)]

\* json.Unmarshal(jsonmsg, &bot) with bot of type BotMsg.
DecodeBot(line) ==
    [err |-> (line.bad \cap BotFields) # {},
     bot |-> DecodeBotObj(line)]

\* json.Unmarshal(jsonmsg, &ready) with ready of type ReadyMsg.
DecodeReady(line) ==
    [err  |-> \/ (line.bad \cap {"PID", "Bots"}) # {}
              \/ \E i \in 1..Len(line.Bots) :
                     (line.Bots[i].bad \cap BotFields) # {},
     PID  |-> Field(line, "PID", line.PID),
     Bots |-> IF "Bots" \in line.bad
              THEN << >>
              ELSE [i \in 1..Len(line.Bots) |-> DecodeBotObj(line.Bots[i])]]

(***************************************************************************)
(* The game database.  gdb.Bots is a sequence of GDBBot records; a         *)
(* *GDBBot into it is modelled by its index.                               *)
(***************************************************************************)
SameBot(bot, b) == bot.BID = b.BID /\ bot.PID = b.PID

\* The index of the first entry of bots with b's BID and PID, 0 when none:
\* the loops of InsertUpdateBot stop at the first match.
RECURSIVE FirstMatchFrom(_, _, _)
FirstMatchFrom(bots, b, i) ==
    IF i > Len(bots) THEN 0
    ELSE IF SameBot(bots[i], b) THEN i
    ELSE FirstMatchFrom(bots, b, i + 1)

FirstMatch(bots, b) == FirstMatchFrom(bots, b, 1)

\* Mutant: the removal cuts the slice at i (gdb.Bots = gdb.Bots[:i]).
RemoveAt_Truncate(bots, i) == SubSeq(bots, 1, i - 1)

\* append(gdb.Bots[:i], gdb.Bots[i+1:]...) for the (1-based) index i.
RemoveAt(bots, i) == SubSeq(bots, 1, i - 1) \o SubSeq(bots, i + 1, Len(bots))

NewGDBBot(b) ==
    [BID |-> b.BID, PID |-> b.PID, X |-> b.X, Y |-> b.Y, Health |-> b.Health]

\* Mutant: the dead-bot branch is missing.
InsertUpdateBot_NoRemove(bots, b) ==
    LET i == FirstMatch(bots, b) IN
    IF i # 0
    THEN [bots EXCEPT ![i].X = b.X, ![i].Y = b.Y, ![i].Health = b.Health]
    ELSE Append(bots, NewGDBBot(b))

\* Mutant: the update loop is missing, every live bot is appended.
InsertUpdateBot_AlwaysAdd(bots, b) ==
    LET i == FirstMatch(bots, b) IN
    IF b.Health <= 0
    THEN IF i # 0 THEN RemoveAt(bots, i) ELSE bots
    ELSE Append(bots, NewGDBBot(b))

\* Mutant: the update branch forgets the health.
InsertUpdateBot_StaleHealth(bots, b) ==
    LET i == FirstMatch(bots, b) IN
    IF b.Health <= 0
    THEN IF i # 0 THEN RemoveAt(bots, i) ELSE bots
    ELSE IF i # 0
         THEN [bots EXCEPT ![i].X = b.X, ![i].Y = b.Y]
         ELSE Append(bots, NewGDBBot(b))

\* Mutant: an update adds the message's position to the stored one.
InsertUpdateBot_Accumulate(bots, b) ==
    LET i == FirstMatch(bots, b) IN
    IF b.Health <= 0
    THEN IF i # 0 THEN RemoveAt(bots, i) ELSE bots
    ELSE IF i # 0
         THEN [bots EXCEPT ![i].X = @ + b.X, ![i].Y = @ + b.Y,
                           ![i].Health = b.Health]
         ELSE Append(bots, NewGDBBot(b))

\* Mutant: an update deletes the entry and adds the bot again at the end.
InsertUpdateBot_MoveToEnd(bots, b) ==
    LET i == FirstMatch(bots, b) IN
    IF b.Health <= 0
    THEN IF i # 0 THEN RemoveAt(bots, i) ELSE bots
    ELSE IF i # 0
         THEN Append(RemoveAt(bots, i), NewGDBBot(b))
         ELSE Append(bots, NewGDBBot(b))

\* GameDatabase.InsertUpdateBot: the value of gdb.Bots after the call.
InsertUpdateBot(bots, b) ==
    LET i == FirstMatch(bots, b) IN
    IF b.Health <= 0
    THEN IF i # 0 THEN RemoveAt(bots, i) ELSE bots
    ELSE IF i # 0
         THEN [bots EXCEPT ![i].X = b.X, ![i].Y = b.Y, ![i].Health = b.Health]
         ELSE Append(bots, NewGDBBot(b))

\* The loop of MyBots / TheirBots: the indices, in store order, of the
\* entries from i on that are kept.
RECURSIVE MyBotsFrom(_, _, _)
MyBotsFrom(bots, pid, i) ==
    IF i > Len(bots) THEN << >>
    ELSE IF bots[i].PID = pid
         THEN <<i>> \o MyBotsFrom(bots, pid, i + 1)
         ELSE MyBotsFrom(bots, pid, i + 1)

RECURSIVE TheirBotsFrom(_, _, _)
TheirBotsFrom(bots, pid, i) ==
    IF i > Len(bots) THEN << >>
    ELSE IF bots[i].PID # pid
         THEN <<i>> \o TheirBotsFrom(bots, pid, i + 1)
         ELSE TheirBotsFrom(bots, pid, i + 1)

\* GameDatabase.MyBots: references to the bots owned by pid.
MyBots(bots, pid) == MyBotsFrom(bots, pid, 1)

\* Mutant: the comparison is > instead of !=.
TheirBots_Greater(bots, pid) ==
    SelectSeq([i \in 1..Len(bots) |-> i], LAMBDA i : bots[i].PID > pid)

\* GameDatabase.TheirBots: references to the bots not owned by pid.
TheirBots(bots, pid) == TheirBotsFrom(bots, pid, 1)


(***************************************************************************)
(* The strategy of 00-reckless-abandon.go, as far as it decides whether    *)
(* the task goes on.  Commands written to the connection do not act on the *)
(* state below.                                                            *)
(***************************************************************************)
\* The minimum of MaxHealth and the health of the bots refs points to.
RECURSIVE LowHealthFrom(_, _, _, _)
LowHealthFrom(bots, refs, i, low) ==
    IF i > Len(refs) THEN low
    ELSE LowHealthFrom(bots, refs, i + 1,
                       IF bots[refs[i]].Health < low
                       THEN bots[refs[i]].Health ELSE low)

LowHealth(bots, refs) == LowHealthFrom(bots, refs, 1, MaxHealth)

\* weakBots: the enemy bots whose health equals lowHealth.
WeakBots(bots, refs) ==
    SelectSeq(refs, LAMBDA r : bots[r].Health = LowHealth(bots, refs))

\* One pass of the strategy loop over gdb: "return" when there is no weak
\* bot, "panic" when the average position divides by len(myBots) = 0, and
\* "sleep" when the commands were sent and the task waits for the next pass.
TickOutcome(bots, pid) ==
    LET weak == WeakBots(bots, TheirBots(bots, pid)) IN
    IF Len(weak) = 0 THEN "return"
    ELSE IF Len(weak) > 1 /\ Len(MyBots(bots, pid)) = 0 THEN "panic"
    ELSE "sleep"

(***************************************************************************)
(* The commands and the decisions of the three strategies                  *)
(* (00-reckless-abandon.go: "A", 01-danger-noodle.go: "B", the third       *)
(* sample, DEATH STAR: "C").                                               *)
(***************************************************************************)
Variants == {"A", "B", "C"}

MaxPow == 12
BotDiam == 60
MovePow == 4

\* The Command struct.  A destination the code computes with math.Cos and
\* math.Sin is recorded by its centre (X, Y) and its radius R: the command
\* carries X + int(cos(a)*R), Y + int(sin(a)*R) for the angle a of the code.
\* R = 0 is a destination given exactly.
Command(cmd, bid, x, y, r, tpid, tbid, fire, move, shield) ==
    [Cmd |-> cmd, BID |-> bid, X |-> x, Y |-> y, R |-> r,
     TPID |-> tpid, TBID |-> tbid,
     FPow |-> fire, MPow |-> move, SPow |-> shield]

\* GDBBot.Move
Move(b, x, y) == Command("MOVE", b.BID, x, y, 0, 0, 0, 0, 0, 0)

\* A move to the point at distance r from (x, y) in a computed direction.
MoveAround(b, x, y, r) == Command("MOVE", b.BID, x, y, r, 0, 0, 0, 0, 0)

\* GDBBot.Follow of 00-reckless-abandon.go: move onto the bot.
FollowOnto(b, bot) == Move(b, bot.X, bot.Y)

\* GDBBot.Follow of the other two samples: move to BotDiam from the bot.
FollowBehind(b, bot) == MoveAround(b, bot.X, bot.Y, BotDiam)

\* GDBBot.Target
Target(b, bot) == Command("TARGET", b.BID, 0, 0, 0, bot.PID, bot.BID, 0, 0, 0)

\* GDBBot.Power
Power(b, fire, move, shield) ==
    Command("POWER", b.BID, 0, 0, 0, 0, 0, fire, move, shield)

\* distance(xa, ya, xb, yb), squared: the code only compares distances, and
\* the square root keeps the order of these sums of integer squares.
distance(xa, ya, xb, yb) == (xb - xa) * (xb - xa) + (yb - ya) * (yb - ya)

\* Go's integer division (it truncates toward zero), for a divisor > 0.
GoDiv(a, n) == IF a >= 0 THEN a \div n ELSE -((-a) \div n)

RECURSIVE SumX(_, _, _)
SumX(bots, refs, i) ==
    IF i > Len(refs) THEN 0 ELSE bots[refs[i]].X + SumX(bots, refs, i + 1)

RECURSIVE SumY(_, _, _)
SumY(bots, refs, i) ==
    IF i > Len(refs) THEN 0 ELSE bots[refs[i]].Y + SumY(bots, refs, i + 1)

\* The average position of the bots refs points to; refs is not empty.
Average(bots, refs) ==
    <<GoDiv(SumX(bots, refs, 1), Len(refs)), GoDiv(SumY(bots, refs, 1), Len(refs))>>

RECURSIVE Concat(_)
Concat(ss) == IF ss = << >> THEN << >> ELSE Head(ss) \o Concat(Tail(ss))

\* "A": the loop over weakBots that looks for the one closest to avg.  Each
\* pass measures the distance of closeBot, not of the bot of the pass.
RECURSIVE CloseWeakFrom(_, _, _, _, _, _)
CloseWeakFrom(bots, weak, avg, i, closeBot, closeDist) ==
    IF i > Len(weak) THEN closeBot
    ELSE LET dist == distance(avg[1], avg[2], bots[closeBot].X, bots[closeBot].Y)
         IN  IF dist < closeDist
             THEN CloseWeakFrom(bots, weak, avg, i + 1, weak[i], dist)
             ELSE CloseWeakFrom(bots, weak, avg, i + 1, closeBot, closeDist)

\* "A": the target of a pass that has weak bots (and, when it has more than
\* one, bots of its own).
TargetA(bots, pid) ==
    LET weak == WeakBots(bots, TheirBots(bots, pid))
        avg == Average(bots, MyBots(bots, pid))
    IN  IF Len(weak) > 1
        THEN CloseWeakFrom(bots, weak, avg, 1, weak[1],
                 distance(avg[1], avg[2], bots[weak[1]].X, bots[weak[1]].Y))
        ELSE weak[1]

\* "A": the commands of a pass that sends any.
TickCommandsA(bots, pid) ==
    LET my == MyBots(bots, pid)
        target == bots[TargetA(bots, pid)]
    IN  Concat([k \in 1..Len(my) |->
                   << FollowOnto(bots[my[k]], target),
                      Target(bots[my[k]], target) >>])

\* "A": the commands before the loop, for the snapshot of MyBots() taken
\* first: power and a move in a random direction, then, after the sleep,
\* power again.
OpenCommandsA(bots, pid) ==
    LET my == MyBots(bots, pid) IN
    Concat([k \in 1..Len(my) |->
               << Power(bots[my[k]], 0, 11, 1),
                  MoveAround(bots[my[k]], bots[my[k]].X, bots[my[k]].Y, 999) >>])
    \o [k \in 1..Len(my) |-> Power(bots[my[k]], 6, 6, 0)]

\* The loop that looks for the enemy closest to (x, y), starting from a
\* first candidate: a later enemy wins only when strictly closer.
RECURSIVE ClosestFrom(_, _, _, _, _, _, _)
ClosestFrom(bots, their, x, y, i, close, closeDist) ==
    IF i > Len(their) THEN close
    ELSE LET dist == distance(x, y, bots[their[i]].X, bots[their[i]].Y)
         IN  IF dist < closeDist
             THEN ClosestFrom(bots, their, x, y, i + 1, their[i], dist)
             ELSE ClosestFrom(bots, their, x, y, i + 1, close, closeDist)

\* Mutant: the first enemy is the target.
Closest_First(bots, their, x, y) == their[1]

\* The enemy closest to (x, y); their is not empty.  ("C" starts the loop
\* from math.MaxFloat64, which the first pass always undercuts.)
Closest(bots, their, x, y) ==
    ClosestFrom(bots, their, x, y, 1, their[1],
                distance(x, y, bots[their[1]].X, bots[their[1]].Y))

\* Mutant: a trailing bot gets all of MaxPow as shield, on top of MovePow.
BotCommandsB_FullShield(bots, pid, my, k) ==
    LET bot == bots[my[k]]
        their == TheirBots(bots, pid)
    IN  IF k = 1
        THEN IF Len(their) = 0 THEN << >>
             ELSE LET target == bots[Closest(bots, their, bot.X, bot.Y)]
                  IN  << Target(bot, target),
                         Power(bot, MaxPow - MovePow, MovePow, 0),
                         MoveAround(bot, target.X, target.Y, BotDiam * 3) >>
        ELSE << FollowBehind(bot, bots[my[k - 1]]),
                Power(bot, 0, MovePow, MaxPow) >>

\* "B": the commands of the bot at place k of myBots.
BotCommandsB(bots, pid, my, k) ==
    LET bot == bots[my[k]]
        their == TheirBots(bots, pid)
    IN  IF k = 1
        THEN IF Len(their) = 0 THEN << >>
             ELSE LET target == bots[Closest(bots, their, bot.X, bot.Y)]
                  IN  << Target(bot, target),
                         Power(bot, MaxPow - MovePow, MovePow, 0),
                         MoveAround(bot, target.X, target.Y, BotDiam * 3) >>
        ELSE << FollowBehind(bot, bots[my[k - 1]]),
                Power(bot, 0, MovePow, MaxPow - MovePow) >>

\* "B": the commands of a pass.
TickCommandsB(bots, pid) ==
    LET my == MyBots(bots, pid) IN
    Concat([k \in 1..Len(my) |-> BotCommandsB(bots, pid, my, k)])

\* "C": what a pass does before it sends anything.
TickOutcomeC(bots, pid) ==
    IF Len(TheirBots(bots, pid)) = 0 THEN "return"
    ELSE IF Len(MyBots(bots, pid)) = 0 THEN "return"
    ELSE "sleep"

\* "C": whether the bot is surely further than HurryDist (BotDiam * 3) from
\* its place on the circle of radius keepDist (BotDiam * 20) around (x, y):
\* it is when it is within BotDiam * 16 of (x, y).
SurelyFar(bot, x, y) ==
    distance(x, y, bot.X, bot.Y) < (BotDiam * 16) * (BotDiam * 16)

\* "C": the power commands a bot may get in a pass.
PowerChoicesC(bot, x, y) ==
    IF SurelyFar(bot, x, y)
    THEN { << Power(bot, 0, 7, 5) >> }
    ELSE { << Power(bot, 0, 7, 5) >>, << Power(bot, 5, 2, 5) >>, << >> }

\* "C": the commands of a pass that sends any, given the power commands
\* pow[k] of each bot.
TickCommandsC(bots, pid, pow) ==
    LET my == MyBots(bots, pid)
        their == TheirBots(bots, pid)
        centre == Average(bots, their)
        centerBot == bots[my[(Len(my) \div 2) + 1]]
        closeBot == bots[Closest(bots, their, centerBot.X, centerBot.Y)]
    IN  Concat([k \in 1..Len(my) |->
                   << MoveAround(bots[my[k]], centre[1], centre[2], BotDiam * 20),
                      Target(bots[my[k]], closeBot) >> \o pow[k]])

\* "C": the power commands the bots of a pass may get.
PowersC(bots, pid) ==
    LET my == MyBots(bots, pid)
        centre == Average(bots, TheirBots(bots, pid))
    IN  { pow \in [1..Len(my) -> { << Power(bots[my[k]], f[1], f[2], f[3]) >> :
                                     k \in 1..Len(my),
                                     f \in {<<0, 7, 5>>, <<5, 2, 5>>} }
                                   \cup { << >> }] :
            \A k \in 1..Len(my) :
                pow[k] \in PowerChoicesC(bots[my[k]], centre[1], centre[2]) }

(***************************************************************************)
(* The lines the session model reads.                                      *)
(***************************************************************************)
NoBad == {}

\* Text that is not JSON.
GarbageLine == Line(FALSE, "", 0, 0, <<0, 0>>, 0, << >>, NoBad)

\* A message of a type the player does not know.
PingLine == Line(TRUE, "PING", 0, 0, <<0, 0>>, 0, << >>, NoBad)

BotLine(pid, bid, pos, health, bad) ==
    Line(TRUE, "BOT", pid, bid, pos, health, << >>, bad)

ReadyLine(pid, bots, bad) ==
    Line(TRUE, "READY", pid, 0, <<0, 0>>, 0, bots, bad)

BotLines ==
    { BotLine(p, 1, <<100, 7>>, h, NoBad) : p \in MsgPIDs, h \in {0, 5} }
    \cup { BotLine(2, 1, <<100, 7>>, 0, {"Health"}),
           BotLine(1, 1, <<0, 7>>, 12, {"X"}) }

ReadyLines ==
    { ReadyLine(1, << BotObj(1, 1, <<0, 0>>, 12, NoBad),
                      BotObj(2, 1, <<100, 0>>, 12, NoBad) >>, NoBad),
      ReadyLine(2, << BotObj(2, 2, <<0, 0>>, 5, NoBad),
                      BotObj(2, 2, <<100, 7>>, 12, NoBad) >>, NoBad),
      ReadyLine(0, << BotObj(1, 1, <<0, 0>>, 12, NoBad) >>, {"PID"}) }

Lines == {GarbageLine, PingLine} \cup BotLines \cup ReadyLines

\* What ReadString returned together with a read error other than io.EOF.
ErrLines == { BotLine(2, 1, <<100, 7>>, 0, NoBad) }

(***************************************************************************)
(* The inputs of the store model.                                          *)
(***************************************************************************)
BotMsgs ==
    { [PID |-> p, BID |-> b, X |-> pos[1], Y |-> pos[2], Health |-> h] :
        p \in MsgPIDs, b \in MsgBIDs, pos \in Positions, h \in HealthVals }

Ids == MsgPIDs \X MsgBIDs

StorePIDs == {0} \cup MsgPIDs

NoEvent == [seen |-> FALSE, X |-> 0, Y |-> 0, Health |-> 0]

\* queueItem before the first receive.
NoItem == [Msg |-> GarbageLine, Err |-> FALSE, n |-> 0]

(***************************************************************************)
(* State.                                                                  *)
(***************************************************************************)
VARIABLES
    gdbBots,    \* gdb.Bots
    gdbPID,     \* gdb.PID
    msgQueue,   \* the channel's buffer: items [Msg, Err, n], n the line number
    nRead,      \* lines the reader has pushed
    nTaken,     \* items processMsgs has received
    taken,      \* processMsgs: queueItem, the item received last
    procPc,     \* processMsgs: "recv", "roster" (inside the READY branch), "done"
    roster,     \* the part of ready.Bots the READY branch has yet to insert
    strat,      \* one entry per go runStrategy(): "init", "loop" or "done"
    exited,     \* the process has ended (main returned, or a panic)
    last,       \* store model only: the last event applied for each identity
    variant,    \* which sample runs: "A", "B" or "C"
    sent,       \* the commands the last step of a strategy task passed to send
    wfail,      \* a gameConn.Write has returned an error
    heap,       \* SpecSnap only: the arrays gdb.Bots has had underneath
    loc         \* SpecSnap only: the local variables of each strategy task

vars == <<gdbBots, gdbPID, msgQueue, nRead, nTaken, taken, procPc, roster,
          strat, exited, last, variant, sent, wfail, heap, loc>>

Init ==
    /\ gdbBots = << >>
    /\ gdbPID = 0
    /\ msgQueue = << >>
    /\ nRead = 0
    /\ nTaken = 0
    /\ taken = NoItem
    /\ procPc = "recv"
    /\ roster = << >>
    /\ strat = << >>
    /\ exited = FALSE
    /\ last = [id \in Ids |-> NoEvent]
    /\ variant = "A"
    /\ sent = << >>
    /\ wfail = FALSE
    /\ heap = << >>
    /\ loc = << >>

(***************************************************************************)
(* main: the reader loop.                                                  *)
(***************************************************************************)
\* Mutant: a full queue makes the reader drop the line (a select with default).
ReaderPush_DropWhenFull(item) ==
    /\ ~exited
    /\ nRead < MaxLines
    /\ nRead' = nRead + 1
    /\ msgQueue' = IF Len(msgQueue) < QueueCap
                   THEN Append(msgQueue, [item EXCEPT !.n = nRead + 1])
                   ELSE msgQueue
    /\ UNCHANGED <<gdbBots, gdbPID, nTaken, taken, procPc, roster, strat, exited, last, variant, heap, loc, sent, wfail>>

\* msgQueue <- MsgQueueItem{msg, err}: blocks while the buffer is full.
ReaderPush(item) ==
    /\ ~exited
    /\ nRead < MaxLines
    /\ Len(msgQueue) < QueueCap
    /\ nRead' = nRead + 1
    /\ msgQueue' = Append(msgQueue, [item EXCEPT !.n = nRead + 1])
    /\ UNCHANGED <<gdbBots, gdbPID, nTaken, taken, procPc, roster, strat, exited, last, variant, heap, loc, sent, wfail>>

\* A line was read without error.
ReadLine ==
    \E l \in Lines : ReaderPush([Msg |-> l, Err |-> FALSE, n |-> 0])

\* ReadString returned an error other than io.EOF.
ReadError ==
    \E l \in ErrLines : ReaderPush([Msg |-> l, Err |-> TRUE, n |-> 0])

\* ReadString returned io.EOF: main returns and the process ends.
ReadEOF ==
    /\ ~exited
    /\ exited' = TRUE
    /\ UNCHANGED <<gdbBots, gdbPID, msgQueue, nRead, nTaken, taken, procPc, roster,
                   strat, last, variant, heap, loc, sent, wfail>>

(***************************************************************************)
(* processMsgs.                                                            *)
(***************************************************************************)
CanRecv == ~exited /\ procPc = "recv" /\ msgQueue # << >>

\* Mutant: the receive takes the newest item.
Recv_Newest ==
    /\ msgQueue' = SubSeq(msgQueue, 1, Len(msgQueue) - 1)
    /\ nTaken' = nTaken + 1
    /\ taken' = msgQueue[Len(msgQueue)]

\* queueItem := <-msgQueue
Recv ==
    /\ msgQueue' = Tail(msgQueue)
    /\ nTaken' = nTaken + 1
    /\ taken' = Head(msgQueue)

\* Mutant: the continue is missing and the item's text is handled as a BOT.
ProcReadError_Handled ==
    /\ CanRecv
    /\ Head(msgQueue).Err
    /\ Recv
    /\ gdbBots' = InsertUpdateBot(gdbBots, DecodeBot(Head(msgQueue).Msg).bot)
    /\ UNCHANGED <<gdbPID, nRead, procPc, roster, strat, exited, last, variant, heap, loc, sent, wfail>>

\* err != nil: log and continue.
ProcReadError ==
    /\ CanRecv
    /\ Head(msgQueue).Err
    /\ Recv
    /\ UNCHANGED <<gdbBots, gdbPID, nRead, procPc, roster, strat, exited, last, variant, heap, loc, sent, wfail>>

\* The Msg decode fails: log and return.
ProcMalformed ==
    /\ CanRecv
    /\ ~Head(msgQueue).Err
    /\ DecodeMsg(Head(msgQueue).Msg).err
    /\ Recv
    /\ procPc' = "done"
    /\ UNCHANGED <<gdbBots, gdbPID, nRead, roster, strat, exited, last, variant, heap, loc, sent, wfail>>

\* msg.Type == "READY": decode (an error is only logged), save the player ID.
ProcReady ==
    /\ CanRecv
    /\ ~Head(msgQueue).Err
    /\ ~DecodeMsg(Head(msgQueue).Msg).err
    /\ DecodeMsg(Head(msgQueue).Msg).Type = "READY"
    /\ Recv
    /\ gdbPID' = DecodeReady(Head(msgQueue).Msg).PID
    /\ roster' = DecodeReady(Head(msgQueue).Msg).Bots
    /\ procPc' = "roster"
    /\ UNCHANGED <<gdbBots, nRead, strat, exited, last, variant, heap, loc, sent, wfail>>

\* for _, bot := range ready.Bots { gdb.InsertUpdateBot(bot) }: one pass.
ProcReadyInsert ==
    /\ ~exited
    /\ procPc = "roster"
    /\ roster # << >>
    /\ gdbBots' = InsertUpdateBot(gdbBots, Head(roster))
    /\ roster' = Tail(roster)
    /\ UNCHANGED <<gdbPID, msgQueue, nRead, nTaken, taken, procPc, strat, exited, last, variant, heap, loc, sent, wfail>>

\* go runStrategy(); continue
ProcReadySpawn ==
    /\ ~exited
    /\ procPc = "roster"
    /\ roster = << >>
    /\ strat' = Append(strat, "init")
    /\ procPc' = "recv"
    /\ UNCHANGED <<gdbBots, gdbPID, msgQueue, nRead, nTaken, taken, roster, exited, last, variant, heap, loc, sent, wfail>>

\* msg.Type == "BOT": decode (an error is only logged), update or add.
ProcBot ==
    /\ CanRecv
    /\ ~Head(msgQueue).Err
    /\ ~DecodeMsg(Head(msgQueue).Msg).err
    /\ DecodeMsg(Head(msgQueue).Msg).Type = "BOT"
    /\ Recv
    /\ gdbBots' = InsertUpdateBot(gdbBots, DecodeBot(Head(msgQueue).Msg).bot)
    /\ UNCHANGED <<gdbPID, nRead, procPc, roster, strat, exited, last, variant, heap, loc, sent, wfail>>

\* Any other type: log and take the next item.
ProcUnknown ==
    /\ CanRecv
    /\ ~Head(msgQueue).Err
    /\ ~DecodeMsg(Head(msgQueue).Msg).err
    /\ DecodeMsg(Head(msgQueue).Msg).Type \notin {"READY", "BOT"}
    /\ Recv
    /\ UNCHANGED <<gdbBots, gdbPID, nRead, procPc, roster, strat, exited, last, variant, heap, loc, sent, wfail>>

(***************************************************************************)
(* runStrategy.                                                            *)
(***************************************************************************)
\* The opening: power and move commands, three seconds of sleep, power.
StratOpen ==
    \E t \in 1..Len(strat) :
        /\ ~exited
        /\ strat[t] = "init"
        /\ strat' = [strat EXCEPT ![t] = "loop"]
        /\ UNCHANGED <<gdbBots, gdbPID, msgQueue, nRead, nTaken, taken, procPc,
                       roster, exited, last, variant, heap, loc, sent, wfail>>

\* One pass of the loop.
StratTick ==
    \E t \in 1..Len(strat) :
        /\ ~exited
        /\ strat[t] = "loop"
        /\ strat' = IF TickOutcome(gdbBots, gdbPID) = "return"
                    THEN [strat EXCEPT ![t] = "done"]
                    ELSE strat
        /\ exited' = (TickOutcome(gdbBots, gdbPID) = "panic")
        /\ UNCHANGED <<gdbBots, gdbPID, msgQueue, nRead, nTaken, taken, procPc,
                       roster, last, variant, heap, loc, sent, wfail>>

Next ==
    \/ ReadLine
    \/ ReadError
    \/ ReadEOF
    \/ ProcReadError
    \/ ProcMalformed
    \/ ProcReady
    \/ ProcReadyInsert
    \/ ProcReadySpawn
    \/ ProcBot
    \/ ProcUnknown
    \/ StratOpen
    \/ StratTick

Spec == Init /\ [][Next]_vars

(***************************************************************************)
(* The store alone: InsertUpdateBot applied to an initially empty store,   *)
(* for each player ID the store may carry.                                 *)
(***************************************************************************)
InitStore ==
    /\ gdbBots = << >>
    /\ gdbPID \in StorePIDs
    /\ msgQueue = << >>
    /\ nRead = 0
    /\ nTaken = 0
    /\ taken = NoItem
    /\ procPc = "recv"
    /\ roster = << >>
    /\ strat = << >>
    /\ exited = FALSE
    /\ last = [id \in Ids |-> NoEvent]
    /\ variant = "A"
    /\ sent = << >>
    /\ wfail = FALSE
    /\ heap = << >>
    /\ loc = << >>

StoreApply ==
    \E b \in BotMsgs :
        /\ gdbBots' = InsertUpdateBot(gdbBots, b)
        /\ last' = [last EXCEPT ![<<b.PID, b.BID>>] =
                       [seen |-> TRUE, X |-> b.X, Y |-> b.Y, Health |-> b.Health]]
        /\ UNCHANGED <<gdbPID, msgQueue, nRead, nTaken, taken, procPc, roster, strat,
                       exited, variant, heap, loc, sent, wfail>>

NextStore == StoreApply

SpecStore == InitStore /\ [][NextStore]_vars

(***************************************************************************)
(* The strategies in full: the session with the commands each step of a    *)
(* strategy task sends, for each of the three samples.  A step of a        *)
(* strategy task reads gdb once: it is the run of that stretch of code     *)
(* with no step of processMsgs in between.                                 *)
(***************************************************************************)
\* Lines the reader takes in the sessions of SpecStrat.
MaxStratLines == 3

\* PID 1 with one bot of its own and one enemy.
ReadyDuel ==
    ReadyLine(1, << BotObj(1, 1, <<0, 0>>, 12, NoBad),
                    BotObj(2, 1, <<100, 0>>, 12, NoBad) >>, NoBad)

\* PID 1 with three bots of its own around (0, 0) and four enemies of health
\* 3, 5, 3, 3 at distances 10, 1, 4, 4 from (0, 0).
ReadySwarm ==
    ReadyLine(1, << BotObj(1, 1, <<0, 0>>, 12, NoBad),
                    BotObj(1, 2, <<-6, 0>>, 12, NoBad),
                    BotObj(1, 3, <<6, 0>>, 12, NoBad),
                    BotObj(2, 1, <<10, 0>>, 3, NoBad),
                    BotObj(2, 2, <<1, 0>>, 5, NoBad),
                    BotObj(2, 3, <<4, 0>>, 3, NoBad),
                    BotObj(2, 4, <<0, 4>>, 3, NoBad) >>, NoBad)

StratLines ==
    { ReadyDuel, ReadySwarm,
      BotLine(2, 1, <<100, 0>>, 0, NoBad),
      BotLine(2, 1, <<100, 0>>, 13, NoBad),
      BotLine(2, 2, <<1, 0>>, 0, NoBad),
      BotLine(1, 1, <<0, 0>>, 0, NoBad),
      BotLine(1, 2, <<-6, 3>>, 7, NoBad) }

\* The session of the end-to-end scenario: READY, then enemy (2,1) dies.
DuelScript == << ReadyDuel, BotLine(2, 1, <<100, 0>>, 0, NoBad) >>

InitStrat ==
    /\ gdbBots = << >>
    /\ gdbPID = 0
    /\ msgQueue = << >>
    /\ nRead = 0
    /\ nTaken = 0
    /\ taken = NoItem
    /\ procPc = "recv"
    /\ roster = << >>
    /\ strat = << >>
    /\ exited = FALSE
    /\ last = [id \in Ids |-> NoEvent]
    /\ variant \in Variants
    /\ sent = << >>
    /\ wfail = FALSE
    /\ heap = << >>
    /\ loc = << >>

ReadStratLine ==
    /\ nRead < MaxStratLines
    /\ \E l \in StratLines : ReaderPush([Msg |-> l, Err |-> FALSE, n |-> 0])

ReadScriptLine ==
    /\ nRead < Len(DuelScript)
    /\ ReaderPush([Msg |-> DuelScript[nRead + 1], Err |-> FALSE, n |-> 0])

\* send(cmd) for each command of cmds: gameConn.Write may fail, and its
\* result is dropped.
Send(cmds) ==
    \E fail \in BOOLEAN :
        /\ sent' = cmds
        /\ wfail' = (wfail \/ (fail /\ cmds # << >>))
        /\ UNCHANGED exited

\* The code of runStrategy before its loop.
Open(t) ==
    /\ ~exited
    /\ strat[t] = "init"
    /\ strat' = [strat EXCEPT ![t] = "loop"]
    /\ Send(IF variant = "A" THEN OpenCommandsA(gdbBots, gdbPID) ELSE << >>)
    /\ UNCHANGED <<gdbBots, gdbPID, msgQueue, nRead, nTaken, taken, procPc,
                   roster, last, variant, heap, loc>>

\* Mutant: Follow moves the bot itself onto the target (b.X = bot.X).
TickA_WritesStore(t) ==
    /\ variant = "A"
    /\ ~exited
    /\ strat[t] = "loop"
    /\ \/ /\ TickOutcome(gdbBots, gdbPID) = "return"
          /\ strat' = [strat EXCEPT ![t] = "done"]
          /\ sent' = << >>
          /\ UNCHANGED <<exited, wfail, gdbBots>>
       \/ /\ TickOutcome(gdbBots, gdbPID) = "panic"
          /\ exited' = TRUE
          /\ sent' = << >>
          /\ UNCHANGED <<strat, wfail, gdbBots>>
       \/ /\ TickOutcome(gdbBots, gdbPID) = "sleep"
          /\ Send(TickCommandsA(gdbBots, gdbPID))
          /\ gdbBots' = [i \in 1..Len(gdbBots) |->
                           IF gdbBots[i].PID = gdbPID
                           THEN [gdbBots[i] EXCEPT
                                    !.X = gdbBots[TargetA(gdbBots, gdbPID)].X,
                                    !.Y = gdbBots[TargetA(gdbBots, gdbPID)].Y]
                           ELSE gdbBots[i]]
          /\ UNCHANGED strat
    /\ UNCHANGED <<gdbPID, msgQueue, nRead, nTaken, taken, procPc,
                   roster, last, variant, heap, loc>>

\* One pass of the loop of 00-reckless-abandon.go.
TickA(t) ==
    /\ variant = "A"
    /\ ~exited
    /\ strat[t] = "loop"
    /\ \/ /\ TickOutcome(gdbBots, gdbPID) = "return"
          /\ strat' = [strat EXCEPT ![t] = "done"]
          /\ sent' = << >>
          /\ UNCHANGED <<exited, wfail>>
       \/ /\ TickOutcome(gdbBots, gdbPID) = "panic"
          /\ exited' = TRUE
          /\ sent' = << >>
          /\ UNCHANGED <<strat, wfail>>
       \/ /\ TickOutcome(gdbBots, gdbPID) = "sleep"
          /\ Send(TickCommandsA(gdbBots, gdbPID))
          /\ UNCHANGED strat
    /\ UNCHANGED <<gdbBots, gdbPID, msgQueue, nRead, nTaken, taken, procPc,
                   roster, last, variant, heap, loc>>

\* One pass of the loop of 01-danger-noodle.go.
TickB(t) ==
    /\ variant = "B"
    /\ ~exited
    /\ strat[t] = "loop"
    /\ Send(TickCommandsB(gdbBots, gdbPID))
    /\ UNCHANGED <<gdbBots, gdbPID, msgQueue, nRead, nTaken, taken, procPc,
                   roster, last, variant, heap, loc, strat>>

\* One pass of the loop of the third sample.
TickC(t) ==
    /\ variant = "C"
    /\ ~exited
    /\ strat[t] = "loop"
    /\ \/ /\ TickOutcomeC(gdbBots, gdbPID) = "return"
          /\ strat' = [strat EXCEPT ![t] = "done"]
          /\ sent' = << >>
          /\ UNCHANGED <<exited, wfail>>
       \/ /\ TickOutcomeC(gdbBots, gdbPID) = "sleep"
          /\ \E pow \in PowersC(gdbBots, gdbPID) :
                 Send(TickCommandsC(gdbBots, gdbPID, pow))
          /\ UNCHANGED strat
    /\ UNCHANGED <<gdbBots, gdbPID, msgQueue, nRead, nTaken, taken, procPc,
                   roster, last, variant, heap, loc>>

Tick(t) == TickA(t) \/ TickB(t) \/ TickC(t)

StratOpenStep == \E t \in 1..Len(strat) : Open(t)

StratTickA == \E t \in 1..Len(strat) : TickA(t)

StratTickB == \E t \in 1..Len(strat) : TickB(t)

StratTickC == \E t \in 1..Len(strat) : TickC(t)

NextStrat ==
    \/ ReadStratLine
    \/ ReadEOF
    \/ ProcReady
    \/ ProcReadyInsert
    \/ ProcReadySpawn
    \/ ProcBot
    \/ StratOpenStep
    \/ StratTickA
    \/ StratTickB
    \/ StratTickC

SpecStrat == InitStrat /\ [][NextStrat]_vars

NextDuel ==
    \/ ReadScriptLine
    \/ ReadEOF
    \/ ProcReady
    \/ ProcReadyInsert
    \/ ProcReadySpawn
    \/ ProcBot
    \/ StratOpenStep
    \/ StratTickA
    \/ StratTickB
    \/ StratTickC

SpecDuel == InitStrat /\ [][NextDuel]_vars

(***************************************************************************)
(* The strategies on a given store: the session right after a READY        *)
(* message with a roster of bots of distinct identities was processed and  *)
(* the strategy task was started.                                          *)
(***************************************************************************)
\* Bots of the rosters of SpecPower.
MaxPowerBots == 3

PowerBots ==
    { [BID |-> 1, PID |-> 1, X |-> 0, Y |-> 0, Health |-> 12],
      [BID |-> 1, PID |-> 1, X |-> 1300, Y |-> 0, Health |-> 12],
      [BID |-> 2, PID |-> 1, X |-> -6, Y |-> 0, Health |-> 12],
      [BID |-> 1, PID |-> 2, X |-> 100, Y |-> 0, Health |-> 3],
      [BID |-> 1, PID |-> 2, X |-> 100, Y |-> 0, Health |-> 12],
      [BID |-> 2, PID |-> 2, X |-> 4, Y |-> 0, Health |-> 3] }

\* gdb.Bots after the roster loop, for each roster.
PowerStores ==
    { bots \in UNION { [1..n -> PowerBots] : n \in 0..MaxPowerBots } :
        \A i, j \in 1..Len(bots) :
            (bots[i].PID = bots[j].PID /\ bots[i].BID = bots[j].BID) => i = j }

\* The READY line with PID 1 and the roster bots.
ReadyFor(bots) ==
    ReadyLine(1, [k \in 1..Len(bots) |->
                     BotObj(bots[k].PID, bots[k].BID,
                            <<bots[k].X, bots[k].Y>>, bots[k].Health, NoBad)],
              NoBad)

InitPower ==
    /\ gdbBots \in PowerStores
    /\ gdbPID = 1
    /\ msgQueue = << >>
    /\ nRead = 1
    /\ nTaken = 1
    /\ taken = [Msg |-> ReadyFor(gdbBots), Err |-> FALSE, n |-> 1]
    /\ procPc = "recv"
    /\ roster = << >>
    /\ strat = << "init" >>
    /\ exited = FALSE
    /\ last = [id \in Ids |-> NoEvent]
    /\ variant \in Variants
    /\ sent = << >>
    /\ wfail = FALSE
    /\ heap = << >>
    /\ loc = << >>

NextPower ==
    \/ StratOpenStep
    \/ StratTickA
    \/ StratTickB
    \/ StratTickC

SpecPower == InitPower /\ [][NextPower]_vars

(***************************************************************************)
(* The references of a snapshot.  gdb.Bots is a slice of GDBBot values and *)
(* MyBots() and TheirBots() return &gdb.Bots[i]: pointers to cells of the  *)
(* array underneath the slice.  heap holds every array gdb.Bots has had    *)
(* (the last one is the current one), a reference is <<array, cell>>, and  *)
(* gdbBots is the slice: the first Len(gdbBots) cells of the last array.   *)
(* SpecSnap runs 00-reckless-abandon.go with the strategy split where it   *)
(* sleeps or sends: a snapshot and the decision on it are one step, each   *)
(* pass of a loop that sends commands is one step, and processMsgs may     *)
(* run in between.                                                         *)
(***************************************************************************)
\* Lines the reader takes in the sessions of SpecSnap.
MaxSnapLines == 4

\* GDBBot{}
ZeroBot == [BID |-> 0, PID |-> 0, X |-> 0, Y |-> 0, Health |-> 0]

\* cap(gdb.Bots)
Cap(h) == IF h = << >> THEN 0 ELSE Len(h[Len(h)])

\* The capacity append gives the new array when the old one is full (the
\* gc runtime doubles small slices).
GrowCap(cap) == IF cap = 0 THEN 1 ELSE cap + cap

\* append(gdb.Bots[:i], gdb.Bots[i+1:]...) on the array: the cells after i
\* are copied one cell down, the last cell of the slice keeps its value.
HeapRemove(h, n, i) ==
    [h EXCEPT ![Len(h)] =
        [k \in 1..Len(h[Len(h)]) |->
            IF k >= i /\ k < n THEN h[Len(h)][k + 1] ELSE h[Len(h)][k]]]

\* gdb.Bots[i].X = b.X and so on.
HeapUpdate(h, i, b) ==
    [h EXCEPT ![Len(h)][i] =
        [h[Len(h)][i] EXCEPT !.X = b.X, !.Y = b.Y, !.Health = b.Health]]

\* append(gdb.Bots, bot): in the next cell when the array has one, in a
\* new array with a copy of the slice otherwise.
HeapAppend(h, n, b) ==
    IF n < Cap(h)
    THEN [h EXCEPT ![Len(h)][n + 1] = NewGDBBot(b)]
    ELSE Append(h, [k \in 1..GrowCap(Cap(h)) |->
                       IF k <= n THEN h[Len(h)][k]
                       ELSE IF k = n + 1 THEN NewGDBBot(b)
                       ELSE ZeroBot])

\* GameDatabase.InsertUpdateBot: the arrays after the call, bots being
\* gdb.Bots before it.
InsertUpdateHeap(h, bots, b) ==
    LET i == FirstMatch(bots, b) IN
    IF b.Health <= 0
    THEN IF i # 0 THEN HeapRemove(h, Len(bots), i) ELSE h
    ELSE IF i # 0 THEN HeapUpdate(h, i, b)
         ELSE HeapAppend(h, Len(bots), b)

\* &gdb.Bots[i]
RefTo(h, i) == <<Len(h), i>>

\* *ref: what the cell holds now.
Deref(h, ref) == h[ref[1]][ref[2]]

\* gdb.MyBots()
MyRefs(h, bots, pid) ==
    [k \in 1..Len(MyBots(bots, pid)) |-> RefTo(h, MyBots(bots, pid)[k])]

NoRef == <<0, 0>>

\* The locals of runStrategy: myBots, target, the place of the range loop
\* in myBots, and for each command of sent the PID of the bot it was
\* built for, as read through the reference.
NoLocals == [my |-> << >>, target |-> NoRef, k |-> 1, from |-> << >>]

\* PID 1; an enemy, two bots of PID 1, an enemy.
ReadySnap ==
    ReadyLine(1, << BotObj(2, 1, <<100, 0>>, 3, NoBad),
                    BotObj(1, 1, <<0, 0>>, 12, NoBad),
                    BotObj(1, 2, <<-6, 0>>, 12, NoBad),
                    BotObj(2, 2, <<4, 0>>, 3, NoBad) >>, NoBad)

SnapBotLines ==
    { BotLine(2, 1, <<100, 0>>, 0, NoBad),
      BotLine(1, 1, <<0, 0>>, 0, NoBad),
      BotLine(2, 3, <<50, 0>>, 12, NoBad),
      BotLine(1, 2, <<-6, 3>>, 7, NoBad) }

\* The READY message is the first line of a session.
ReadSnapLine ==
    /\ nRead < MaxSnapLines
    /\ \E l \in (IF nRead = 0 THEN {ReadySnap} ELSE SnapBotLines) :
           ReaderPush([Msg |-> l, Err |-> FALSE, n |-> 0])

\* processMsgs, READY: one pass of the roster loop.
SnapReadyInsert ==
    /\ ~exited
    /\ procPc = "roster"
    /\ roster # << >>
    /\ gdbBots' = InsertUpdateBot(gdbBots, Head(roster))
    /\ heap' = InsertUpdateHeap(heap, gdbBots, Head(roster))
    /\ roster' = Tail(roster)
    /\ UNCHANGED <<gdbPID, msgQueue, nRead, nTaken, taken, procPc, strat,
                   exited, last, variant, sent, wfail, loc>>

\* processMsgs, READY: go runStrategy()
SnapSpawn ==
    /\ ~exited
    /\ procPc = "roster"
    /\ roster = << >>
    /\ strat' = Append(strat, "init")
    /\ loc' = Append(loc, NoLocals)
    /\ procPc' = "recv"
    /\ UNCHANGED <<gdbBots, gdbPID, msgQueue, nRead, nTaken, taken, roster,
                   exited, last, variant, sent, wfail, heap>>

\* processMsgs, BOT.
SnapProcBot ==
    /\ CanRecv
    /\ ~Head(msgQueue).Err
    /\ ~DecodeMsg(Head(msgQueue).Msg).err
    /\ DecodeMsg(Head(msgQueue).Msg).Type = "BOT"
    /\ Recv
    /\ gdbBots' = InsertUpdateBot(gdbBots, DecodeBot(Head(msgQueue).Msg).bot)
    /\ heap' = InsertUpdateHeap(heap, gdbBots, DecodeBot(Head(msgQueue).Msg).bot)
    /\ UNCHANGED <<gdbPID, nRead, procPc, roster, strat, exited, last,
                   variant, sent, wfail, loc>>

\* Mutant: the opening splits the power between moving and the shield.
OpenBotCommands_EvenSplit(bot) ==
    << Power(bot, 0, 6, 6), MoveAround(bot, bot.X, bot.Y, 999) >>

\* The opening, one pass of its first loop: power, and a move of 999 in a
\* random direction.
OpenBotCommands(bot) ==
    << Power(bot, 0, 11, 1), MoveAround(bot, bot.X, bot.Y, 999) >>

\* myBots = gdb.MyBots() before the first loop.
SnapOpen(t) ==
    /\ ~exited
    /\ strat[t] = "init"
    /\ loc' = [loc EXCEPT ![t] =
                  [NoLocals EXCEPT !.my = MyRefs(heap, gdbBots, gdbPID)]]
    /\ strat' = [strat EXCEPT ![t] =
                    IF MyBots(gdbBots, gdbPID) = << >> THEN "wait" ELSE "open"]
    /\ sent' = << >>
    /\ UNCHANGED <<gdbBots, gdbPID, msgQueue, nRead, nTaken, taken, procPc,
                   roster, exited, last, variant, wfail, heap>>

\* One pass of the first loop; after the last one, time.Sleep(3*time.Second).
SnapOpenBot(t) ==
    /\ ~exited
    /\ strat[t] = "open"
    /\ LET bot == Deref(heap, loc[t].my[loc[t].k]) IN
       /\ Send(sent \o OpenBotCommands(bot))
       /\ loc' = [loc EXCEPT ![t].k = loc[t].k + 1,
                             ![t].from = loc[t].from \o <<bot.PID, bot.PID>>]
    /\ strat' = [strat EXCEPT ![t] =
                    IF loc[t].k = Len(loc[t].my) THEN "wait" ELSE "open"]
    /\ UNCHANGED <<gdbBots, gdbPID, msgQueue, nRead, nTaken, taken, procPc,
                   roster, last, variant, heap>>

\* The sleep of three seconds is over.
SnapWake(t) ==
    /\ ~exited
    /\ strat[t] = "wait"
    /\ loc' = [loc EXCEPT ![t].k = 1, ![t].from = << >>]
    /\ strat' = [strat EXCEPT ![t] =
                    IF loc[t].my = << >> THEN "loop" ELSE "power"]
    /\ sent' = << >>
    /\ UNCHANGED <<gdbBots, gdbPID, msgQueue, nRead, nTaken, taken, procPc,
                   roster, exited, last, variant, wfail, heap>>

\* One pass of the second loop, over the myBots of before the sleep.
SnapPowerBot(t) ==
    /\ ~exited
    /\ strat[t] = "power"
    /\ LET bot == Deref(heap, loc[t].my[loc[t].k]) IN
       /\ Send(sent \o << Power(bot, 6, 6, 0) >>)
       /\ loc' = [loc EXCEPT ![t].k = loc[t].k + 1,
                             ![t].from = loc[t].from \o <<bot.PID>>]
    /\ strat' = [strat EXCEPT ![t] =
                    IF loc[t].k = Len(loc[t].my) THEN "loop" ELSE "power"]
    /\ UNCHANGED <<gdbBots, gdbPID, msgQueue, nRead, nTaken, taken, procPc,
                   roster, last, variant, heap>>

\* A pass of the main loop up to its last loop: theirBots, weakBots, the
\* target, and myBots = gdb.MyBots().
SnapDecide(t) ==
    /\ ~exited
    /\ strat[t] = "loop"
    /\ \/ /\ TickOutcome(gdbBots, gdbPID) = "return"
          /\ strat' = [strat EXCEPT ![t] = "done"]
          /\ UNCHANGED <<exited, loc>>
       \/ /\ TickOutcome(gdbBots, gdbPID) = "panic"
          /\ exited' = TRUE
          /\ UNCHANGED <<strat, loc>>
       \/ /\ TickOutcome(gdbBots, gdbPID) = "sleep"
          /\ loc' = [loc EXCEPT ![t] =
                        [my |-> MyRefs(heap, gdbBots, gdbPID),
                         target |-> RefTo(heap, TargetA(gdbBots, gdbPID)),
                         k |-> 1,
                         from |-> << >>]]
          /\ strat' = [strat EXCEPT ![t] =
                          IF MyBots(gdbBots, gdbPID) = << >> THEN "loop"
                          ELSE "emit"]
          /\ UNCHANGED exited
    /\ sent' = << >>
    /\ UNCHANGED <<gdbBots, gdbPID, msgQueue, nRead, nTaken, taken, procPc,
                   roster, last, variant, wfail, heap>>

\* One pass of the last loop: Follow and Target for a bot of myBots (the
\* first time round the task sleeps after each pass); after the last one,
\* time.Sleep(time.Second/4).
SnapEmit(t) ==
    /\ ~exited
    /\ strat[t] = "emit"
    /\ LET bot == Deref(heap, loc[t].my[loc[t].k])
           target == Deref(heap, loc[t].target)
       IN  /\ Send(sent \o << FollowOnto(bot, target), Target(bot, target) >>)
           /\ loc' = [loc EXCEPT ![t].k = loc[t].k + 1,
                                 ![t].from = loc[t].from \o <<bot.PID, bot.PID>>]
    /\ strat' = [strat EXCEPT ![t] =
                    IF loc[t].k = Len(loc[t].my) THEN "loop" ELSE "emit"]
    /\ UNCHANGED <<gdbBots, gdbPID, msgQueue, nRead, nTaken, taken, procPc,
                   roster, last, variant, heap>>

SnapOpenStep == \E t \in 1..Len(strat) : SnapOpen(t)

SnapOpenBotStep == \E t \in 1..Len(strat) : SnapOpenBot(t)

SnapWakeStep == \E t \in 1..Len(strat) : SnapWake(t)

SnapPowerBotStep == \E t \in 1..Len(strat) : SnapPowerBot(t)

SnapDecideStep == \E t \in 1..Len(strat) : SnapDecide(t)

SnapEmitStep == \E t \in 1..Len(strat) : SnapEmit(t)

NextSnap ==
    \/ ReadSnapLine
    \/ ProcReady
    \/ SnapReadyInsert
    \/ SnapSpawn
    \/ SnapProcBot
    \/ SnapOpenStep
    \/ SnapOpenBotStep
    \/ SnapWakeStep
    \/ SnapPowerBotStep
    \/ SnapDecideStep
    \/ SnapEmitStep

SpecSnap == Init /\ [][NextSnap]_vars

(***************************************************************************)
(* Properties.                                                             *)
(***************************************************************************)
\* The indices of the store entries with identity id = <<PID, BID>>.
EntriesOf(id) ==
    { i \in 1..Len(gdbBots) : gdbBots[i].PID = id[1] /\ gdbBots[i].BID = id[2] }

Range(seq) == { seq[i] : i \in 1..Len(seq) }

\* C1 (SpecStore): after any sequence of InsertUpdateBot calls on an empty
\* store, an identity whose last event has health > 0 is stored with that
\* event's X, Y and Health, and an identity whose last event has health <= 0
\* (or that had no event) is absent.
C1_LastEventWins ==
    \A id \in Ids :
        IF last[id].seen /\ last[id].Health > 0
        THEN /\ EntriesOf(id) # {}
             /\ \A i \in EntriesOf(id) :
                    /\ gdbBots[i].X = last[id].X
                    /\ gdbBots[i].Y = last[id].Y
                    /\ gdbBots[i].Health = last[id].Health
        ELSE EntriesOf(id) = {}

\* C1 witness: two bots are stored, one identity's last event reported it
\* dead, and another's last event is a live one at X = 100.
C1_Witness ==
    /\ Len(gdbBots) >= 2
    /\ \E id \in Ids : last[id].seen /\ last[id].Health <= 0
    /\ \E id \in Ids : last[id].seen /\ last[id].Health = 5 /\ last[id].X = 100

\* C2 (Spec): no bot in gdb.Bots has Health <= 0.
C2_NoDeadBotStored ==
    \A i \in 1..Len(gdbBots) : gdbBots[i].Health > 0

\* C2 witness: processMsgs has just applied a BOT message with health <= 0
\* and the store still holds a bot.
C2_Witness ==
    /\ nTaken >= 2
    /\ ~taken.Err
    /\ taken.Msg.Type = "BOT"
    /\ DecodeBot(taken.Msg).bot.Health <= 0
    /\ Len(gdbBots) >= 1

\* C3 (Spec): gdb.Bots holds at most one entry per (PID, BID).
C3_UniqueIdentity ==
    \A i, j \in 1..Len(gdbBots) : SameBot(gdbBots[i], gdbBots[j]) => i = j

\* C3 witness: the READY branch has inserted a roster that names one identity
\* twice and has spawned the strategy.
C3_Witness ==
    /\ procPc = "recv"
    /\ ~taken.Err
    /\ taken.Msg.Type = "READY"
    /\ Len(taken.Msg.Bots) = 2
    /\ SameBot(taken.Msg.Bots[1], taken.Msg.Bots[2])
    /\ strat # << >>
    /\ gdbBots # << >>

\* C4 (SpecStore): MyBots() and TheirBots() partition the store: every entry
\* is referenced by exactly one of them (MyBots iff its PID is gdb.PID), no
\* entry twice, and every reference is an index of the store.
C4_Partition ==
    LET my == MyBots(gdbBots, gdbPID)
        their == TheirBots(gdbBots, gdbPID)
    IN  /\ Range(my) \cup Range(their) = 1..Len(gdbBots)
        /\ Range(my) \cap Range(their) = {}
        /\ Len(my) + Len(their) = Len(gdbBots)
        /\ \A i \in 1..Len(gdbBots) :
               i \in Range(my) <=> gdbBots[i].PID = gdbPID

\* C4 witness: a store with bots on both sides of the partition, and an
\* enemy whose PID is below gdb.PID.
C4_Witness ==
    /\ Len(MyBots(gdbBots, gdbPID)) >= 2
    /\ Len(TheirBots(gdbBots, gdbPID)) >= 2
    /\ gdbPID = 2

\* C5 (SpecStore): InsertUpdateBot is idempotent on every reachable store:
\* applying an event twice gives the store that applying it once gives.
C5_Idempotent ==
    \A b \in BotMsgs :
        InsertUpdateBot(InsertUpdateBot(gdbBots, b), b)
            = InsertUpdateBot(gdbBots, b)

\* C5 witness: an event with a non-zero position is the last one applied for
\* its identity, other bots are stored, and applying it again changes nothing.
C5_Witness ==
    \E b \in BotMsgs :
        /\ b.Health > 0 /\ b.X # 0
        /\ last[<<b.PID, b.BID>>] =
               [seen |-> TRUE, X |-> b.X, Y |-> b.Y, Health |-> b.Health]
        /\ Len(gdbBots) >= 3
        /\ InsertUpdateBot(gdbBots, b) = gdbBots

\* C6 (Spec): the queue is FIFO and lossless and never holds more than its
\* capacity: the buffer is exactly the lines nTaken+1 .. nRead in the order
\* they were read, and the item processMsgs holds is line nTaken.
C6_QueueFifoLossless ==
    /\ Len(msgQueue) <= QueueCap
    /\ nTaken + Len(msgQueue) = nRead
    /\ \A i \in 1..Len(msgQueue) : msgQueue[i].n = nTaken + i
    /\ taken.n = nTaken

\* C6 witness: the queue is full after processMsgs has taken items and the
\* reader has lines left to push.
C6_Witness ==
    /\ Len(msgQueue) = QueueCap
    /\ nTaken >= 1
    /\ nRead = nTaken + QueueCap

\* C7 (Spec), as claimed: runStrategy is never started a second time.
C7_SpawnedOnce ==
    Len(strat) <= 1

Running == \E t \in 1..Len(strat) : strat[t] \in {"init", "loop"}

\* C8 (Spec), as claimed: while a strategy task runs, processMsgs is never
\* between saving a player ID and inserting the last bot of that READY's
\* roster.
C8_NoPartialRosterSeen ==
    Running => ~(procPc = "roster" /\ roster # << >>)

\* C9 (Spec), as claimed: after a line that fails the Msg decode,
\* processMsgs is back at the receive.
C9_MalformedLineDiscarded ==
    (nTaken > 0 /\ ~taken.Err /\ DecodeMsg(taken.Msg).err) => procPc = "recv"

\* C10 (Spec), as claimed: the step that receives a BOT message whose BotMsg
\* decode fails leaves gdb.Bots as it was.
C10_BadBotSkipped ==
    [][ ( /\ CanRecv
          /\ ~Head(msgQueue).Err
          /\ ~DecodeMsg(Head(msgQueue).Msg).err
          /\ DecodeMsg(Head(msgQueue).Msg).Type = "BOT"
          /\ DecodeBot(Head(msgQueue).Msg).err
          /\ nTaken' = nTaken + 1 )
        => gdbBots' = gdbBots ]_vars

\* processMsgs holds a READY message whose ReadyMsg decode failed.
TakenBadReady ==
    /\ nTaken > 0
    /\ ~taken.Err
    /\ ~DecodeMsg(taken.Msg).err
    /\ DecodeMsg(taken.Msg).Type = "READY"
    /\ DecodeReady(taken.Msg).err

\* C11 (Spec), as claimed: a READY message whose decode fails stops the
\* session; processMsgs does not go on into the roster loop and the spawn.
C11_BadReadyFatal ==
    TakenBadReady => (exited \/ procPc = "done")

\* C12 (Spec): the step that receives an item with Err != nil leaves
\* gdb.Bots, gdb.PID and the strategy tasks as they were and leaves
\* processMsgs at the receive.
C12_ReadErrorSkipped ==
    [][ (CanRecv /\ Head(msgQueue).Err /\ nTaken' = nTaken + 1)
        => /\ gdbBots' = gdbBots
           /\ gdbPID' = gdbPID
           /\ strat' = strat
           /\ roster' = roster
           /\ procPc' = "recv" ]_vars

\* C12 witness: processMsgs has skipped an item with a read error whose text
\* is a BOT message reporting bot (2,1) dead, and bot (2,1) is still stored.
C12_Witness ==
    /\ nTaken >= 2
    /\ taken.Err
    /\ taken.Msg.Type = "BOT"
    /\ DecodeBot(taken.Msg).bot.Health <= 0
    /\ \E i \in 1..Len(gdbBots) : SameBot(gdbBots[i], DecodeBot(taken.Msg).bot)
    /\ procPc = "recv"

Tasks == 1..Len(strat)

Mine == MyBots(gdbBots, gdbPID)

Theirs == TheirBots(gdbBots, gdbPID)

IdOf(bot) == <<bot.PID, bot.BID>>

\* The TARGET commands of a batch.
TargetsOf(cmds) == SelectSeq(cmds, LAMBDA c : c.Cmd = "TARGET")

\* C13 (SpecStrat), as claimed: in each of the three samples a pass of the
\* strategy loop that finds no enemy bot ends the task.
C13_NoEnemyEndsTask ==
    [][ \A t \in Tasks :
            (Tick(t) /\ Len(Theirs) = 0) => strat'[t] = "done" ]_vars

\* C14 (SpecDuel), as claimed: once READY (PID 1; bots (1,1) and (2,1)) and
\* the BOT message with health 0 for (2,1) are processed, the store holds
\* bot (1,1) alone, TheirBots() is empty, and the next pass of the strategy
\* loop ends the task.
C14_DuelEndsStrategy ==
    [][ (nTaken = Len(DuelScript) /\ procPc = "recv")
        => /\ gdbBots = << [BID |-> 1, PID |-> 1, X |-> 0, Y |-> 0,
                            Health |-> 12] >>
           /\ Len(Theirs) = 0
           /\ \A t \in Tasks : Tick(t) => strat'[t] = "done" ]_vars

\* The member of weakBots nearest to the average position of the own bots,
\* the first such member when several are equally near.
NearestWeak ==
    LET weak == WeakBots(gdbBots, Theirs)
        avg == Average(gdbBots, Mine)
        d(k) == distance(avg[1], avg[2], gdbBots[weak[k]].X, gdbBots[weak[k]].Y)
    IN  weak[CHOOSE k \in 1..Len(weak) :
                 \A j \in 1..Len(weak) : d(k) < d(j) \/ (d(k) = d(j) /\ k <= j)]

\* C15 (SpecStrat), as claimed: a pass of "A" with more than one weak bot
\* targets the weak bot nearest to the average position of the own bots
\* (the first of the equally near ones).
C15_TieBreakNearest ==
    [][ \A t \in Tasks :
            ( /\ TickA(t)
              /\ TickOutcome(gdbBots, gdbPID) = "sleep"
              /\ Len(WeakBots(gdbBots, Theirs)) > 1 )
            => \A i \in 1..Len(TargetsOf(sent')) :
                   <<TargetsOf(sent')[i].TPID, TargetsOf(sent')[i].TBID>>
                       = IdOf(gdbBots[NearestWeak]) ]_vars

\* C16 (SpecStrat), as claimed: after a failed write the session is over.
C16_WriteFailureFatal ==
    wfail => exited

\* C17 (SpecStrat): no step of a strategy task changes gdb.Bots or gdb.PID:
\* a step that changes one of them is a step of processMsgs and is not a
\* step of a strategy task.
C17_StrategyReadsOnly ==
    [][ (gdbBots' # gdbBots \/ gdbPID' # gdbPID)
        => /\ ProcReady \/ ProcReadyInsert \/ ProcBot
           /\ ~(\E t \in Tasks : Open(t) \/ Tick(t)) ]_vars

\* C17 witness: a pass of "A" has sent its commands for a store that
\* processMsgs has updated after the READY message.
C17_Witness ==
    /\ variant = "A"
    /\ nTaken >= 2
    /\ Len(TargetsOf(sent)) >= 2
    /\ Len(gdbBots) >= 2

\* C18 (SpecStrat), as claimed: a pass of the strategy loop that finds an
\* enemy bot ends neither the task nor the process.
C18_OnlyNoEnemyEnds ==
    [][ \A t \in Tasks :
            (Tick(t) /\ Len(Theirs) > 0)
            => (strat'[t] # "done" /\ ~exited') ]_vars

\* The enemy bot nearest to bot, the first such bot of TheirBots() when
\* several are equally near.
NearestEnemy(bot) ==
    LET d(k) == distance(bot.X, bot.Y, gdbBots[Theirs[k]].X, gdbBots[Theirs[k]].Y)
    IN  Theirs[CHOOSE k \in 1..Len(Theirs) :
                   \A j \in 1..Len(Theirs) : d(k) < d(j) \/ (d(k) = d(j) /\ k <= j)]

MyIds == [k \in 1..Len(Mine) |-> IdOf(gdbBots[Mine[k]])]

StoredIds == { IdOf(gdbBots[i]) : i \in 1..Len(gdbBots) }

\* The place of id in the sequence ids.
PlaceOf(ids, id) == CHOOSE k \in 1..Len(ids) : ids[k] = id

\* C20 (SpecStrat): a step that keeps gdb.PID keeps the own bots in their
\* order: two own bots stored before and after stay in the same order; when
\* the lead is removed the lead becomes the own bot that was second; and
\* while the lead is stored it stays the lead.
C20_LeadSuccession ==
    [][ (gdbPID' = gdbPID /\ gdbBots' # gdbBots /\ Len(Mine) > 0)
        => LET old == MyIds
               new == MyIds'
           IN  /\ \A i, j \in 1..Len(old) :
                      (i < j /\ old[i] \in Range(new) /\ old[j] \in Range(new))
                          => PlaceOf(new, old[i]) < PlaceOf(new, old[j])
               /\ IF old[1] \in StoredIds'
                  THEN new[1] = old[1]
                  ELSE new = Tail(old) ]_vars

\* C20 witness: the lead (1,1) of three own bots was removed, bot (1,2) was
\* updated in place, and a pass of "B" has (1,2) as the lead.
C20_Witness ==
    /\ variant = "B"
    /\ nTaken = 3
    /\ MyIds = << <<1, 2>>, <<1, 3>> >>
    /\ gdbBots[1].Health = 7
    /\ Len(TargetsOf(sent)) = 1
    /\ TargetsOf(sent)[1].BID = 2

\* The entries of gdb.Bots of another identity than id, in store order.
OthersOf(bots, id) == SelectSeq(bots, LAMBDA e : IdOf(e) # id)

\* C22 (SpecStore): a call of InsertUpdateBot for identity id leaves the
\* entries of every other identity as they were (PID, BID, X, Y, Health)
\* and in their order, leaves gdb.PID as it was, and removes the entry of
\* id only when the health it carries is <= 0.
C22_UpsertFrame ==
    [][ \A id \in Ids :
            (\A j \in Ids \ {id} : last'[j] = last[j])
            => /\ OthersOf(gdbBots', id) = OthersOf(gdbBots, id)
               /\ gdbPID' = gdbPID
               /\ (id \in StoredIds /\ id \notin StoredIds')
                      => last'[id].Health <= 0 ]_vars

\* C22 witness: bot (1,1) was removed by an update of health <= 0 and the
\* store holds bots (1,2) and (2,1), in this order, as their last updates
\* left them.
C22_Witness ==
    /\ last[<<1, 1>>].seen
    /\ last[<<1, 1>>].Health <= 0
    /\ <<1, 1>> \notin StoredIds
    /\ Len(gdbBots) = 2
    /\ IdOf(gdbBots[1]) = <<1, 2>>
    /\ IdOf(gdbBots[2]) = <<2, 1>>
    /\ last[<<1, 2>>].Health = gdbBots[1].Health
    /\ last[<<2, 1>>].Health = gdbBots[2].Health

\* The POWER commands of a batch.
PowersOf(cmds) == SelectSeq(cmds, LAMBDA c : c.Cmd = "POWER")

\* C24 (SpecPower), as claimed: no pass of the strategy loop ends the
\* process with a run-time failure, whatever the store holds.
C24_NoRuntimeFailure ==
    [][ (\E t \in Tasks : Tick(t)) => ~exited' ]_vars

\* C25 (SpecPower): every POWER command sent has FPow, MPow and SPow >= 0
\* with FPow + MPow + SPow = 12.
C25_PowerBudget ==
    \A i \in 1..Len(PowersOf(sent)) :
        LET c == PowersOf(sent)[i] IN
        /\ c.FPow >= 0
        /\ c.MPow >= 0
        /\ c.SPow >= 0
        /\ c.FPow + c.MPow + c.SPow = MaxPow

\* C25 witness: a pass of "B" has sent the two allocations of the sample,
\* (8, 4, 0) for the lead and (0, 4, 8) for a trailing bot.
C25_Witness ==
    /\ variant = "B"
    /\ \E i, j \in 1..Len(PowersOf(sent)) :
           /\ PowersOf(sent)[i].FPow = 8 /\ PowersOf(sent)[i].SPow = 0
           /\ PowersOf(sent)[j].FPow = 0 /\ PowersOf(sent)[j].SPow = 8

\* The slice gdb.Bots is the first cells of the current array.
HeapHoldsStore ==
    heap # << >> => gdbBots = SubSeq(heap[Len(heap)], 1, Len(gdbBots))

C23_SnapshotKeepsIdentity ==
    /\ \A i \in 1..Len(TargetsOf(sent)) : TargetsOf(sent)[i].TPID # gdbPID
    /\ \A t \in Tasks :
           \A i \in 1..Len(loc[t].from) : loc[t].from[i] = gdbPID

=============================================================================
